---------------------------- MODULE Spec2Model ----------------------------
(***************************************************************************)
(* Model of src/app.py: the rule store (SQLite table `rules`), the admin   *)
(* handlers that create and delete rules, and the correction engine        *)
(* correct_text with its regular-expression matching and case-preserving   *)
(* replacement.                                                            *)
(*                                                                         *)
(* A text is a sequence of characters; a character is a one-character      *)
(* string.  The columns `notes` and `created_at` of a rule are never read  *)
(* by get_rules' ORDER BY nor by correct_text and are left out of a row.   *)
(***************************************************************************)
EXTENDS Naturals, Sequences, FiniteSets

VARIABLES
    store,      \* the rows of table `rules`: a set of [id, wrong, right]
    nextId,     \* the next AUTOINCREMENT id (ids are never reused)
    calls,      \* per caller of correct_text: the call's local state
    imp         \* the admin_import request in progress

vars == <<store, nextId, calls, imp>>

---------------------------------------------------------------------------
(* Bounds of the model.                                                    *)

\* longest text enumerated for the engine
MaxTextLen == 3
\* most rows of a table enumerated for the engine
MaxRows == 2
\* rules created in one run of the store (caps the AUTOINCREMENT counter)
MaxId == 2
\* most items of an imported payload
MaxImport == 1

---------------------------------------------------------------------------
(* Characters: str.upper, str.lower, str.isupper, str.islower and the      *)
(* regular expression class \w, on the characters the model uses.          *)

LowerLetters == <<"a", "b", "e", "f", "i", "l", "m", "n", "o", "r", "s", "u", "v", "ó">>
UpperLetters == <<"A", "B", "E", "F", "I", "L", "M", "N", "O", "R", "S", "U", "V", "Ó">>

LetterIdx == 1..Len(LowerLetters)

IsLowerChar(c) == \E k \in LetterIdx : LowerLetters[k] = c
IsUpperChar(c) == \E k \in LetterIdx : UpperLetters[k] = c

UpperOf(c) ==
    IF IsLowerChar(c)
    THEN UpperLetters[CHOOSE k \in LetterIdx : LowerLetters[k] = c]
    ELSE c

LowerOf(c) ==
    IF IsUpperChar(c)
    THEN LowerLetters[CHOOSE k \in LetterIdx : UpperLetters[k] = c]
    ELSE c

\* \w of a str pattern: a letter, a digit or the underscore
IsWordChar(c) ==
    IsLowerChar(c) \/ IsUpperChar(c) \/ c \in {"0", "1", "_"}

\* the whitespace str.strip() removes
IsSpaceChar(c) == c \in {" ", "\t", "\n"}

---------------------------------------------------------------------------
(* Strings.                                                                *)

upper(s) == [k \in 1..Len(s) |-> UpperOf(s[k])]

\* str.isupper(): at least one cased character, and no lower-case one
isupper(s) ==
    /\ \E k \in 1..Len(s) : IsUpperChar(s[k])
    /\ \A k \in 1..Len(s) : ~IsLowerChar(s[k])

\* str.islower(): at least one cased character, and no upper-case one
islower(s) ==
    /\ \E k \in 1..Len(s) : IsLowerChar(s[k])
    /\ \A k \in 1..Len(s) : ~IsUpperChar(s[k])

RECURSIVE lstrip(_)
lstrip(s) ==
    IF s # <<>> /\ IsSpaceChar(Head(s)) THEN lstrip(Tail(s)) ELSE s

RECURSIVE rstrip(_)
rstrip(s) ==
    IF s # <<>> /\ IsSpaceChar(s[Len(s)])
    THEN rstrip(SubSeq(s, 1, Len(s) - 1))
    ELSE s

strip(s) == rstrip(lstrip(s))

\* s[1:] of a Python string
Rest(s) == IF s = <<>> THEN <<>> ELSE Tail(s)

\* s[:1] of a Python string
First(s) == IF s = <<>> THEN <<>> ELSE <<Head(s)>>

---------------------------------------------------------------------------
(* apply_case_like.                                                        *)

\* a faulty variant: the capitalised case lower-cases the remainder
apply_case_like_capitalize(source_text, replacement) ==
    IF isupper(source_text)
    THEN upper(replacement)
    ELSE IF isupper(First(source_text)) /\ islower(Rest(source_text))
         THEN upper(First(replacement))
                \o [k \in 1..Len(Rest(replacement)) |-> LowerOf(Rest(replacement)[k])]
         ELSE replacement

apply_case_like(source_text, replacement) ==
    IF isupper(source_text)
    THEN upper(replacement)
    ELSE IF isupper(First(source_text)) /\ islower(Rest(source_text))
         THEN upper(First(replacement)) \o Rest(replacement)
         ELSE replacement

---------------------------------------------------------------------------
(* The pattern of a rule and its matches.                                  *)

\* `" " not in wrong.strip()`
IsSingleToken(wrong) == \A k \in 1..Len(strip(wrong)) : strip(wrong)[k] # " "

\* two characters match under re.IGNORECASE
EqIgnoreCase(a, b) == LowerOf(a) = LowerOf(b)

\* re.escape(wrong): the characters of wrong, literally, at position p of s
LiteralAt(s, wrong, p) ==
    /\ p >= 1
    /\ p + Len(wrong) - 1 <= Len(s)
    /\ \A k \in 1..Len(wrong) : EqIgnoreCase(s[p + k - 1], wrong[k])

\* whether position p of s holds a word character (no character: no)
WordAt(s, p) == p >= 1 /\ p <= Len(s) /\ IsWordChar(s[p])

\* \b just before position p of s
WordBoundary(s, p) == WordAt(s, p - 1) # WordAt(s, p)

\* the compiled pattern matches at position p of s
MatchAt(s, wrong, p) ==
    /\ LiteralAt(s, wrong, p)
    /\ IF IsSingleToken(wrong)
       THEN WordBoundary(s, p) /\ WordBoundary(s, p + Len(wrong))
       ELSE ~WordAt(s, p - 1) /\ ~WordAt(s, p + Len(wrong))

\* a faulty variant of the callback: it records the rule's stored form
\* in place of the matched text
_repl_stored(wrong, original, right) ==
    [de |-> wrong, para |-> apply_case_like(original, right)]

\* the callback _repl: the change record of one match
_repl(wrong, original, right) ==
    [de |-> original, para |-> apply_case_like(original, right)]

\* pattern.subn(_repl, s): the matches are found left to right and do not
\* overlap; out is the new text, found the callback's records in call
\* order, pos the position in s of each match
RECURSIVE subn(_, _, _, _)
subn(s, wrong, right, p) ==
    IF p > Len(s)
    THEN [out |-> <<>>, found |-> <<>>, pos |-> <<>>]
    ELSE IF MatchAt(s, wrong, p)
         THEN LET rec  == _repl(wrong, SubSeq(s, p, p + Len(wrong) - 1), right)
                  rest == subn(s, wrong, right, p + Len(wrong))
              IN  [out   |-> rec.para \o rest.out,
                   found |-> <<rec>> \o rest.found,
                   pos   |-> <<p>> \o rest.pos]
         ELSE LET rest == subn(s, wrong, right, p + 1)
              IN  [out   |-> <<s[p]>> \o rest.out,
                   found |-> rest.found,
                   pos   |-> rest.pos]


---------------------------------------------------------------------------
(* The rule store.                                                         *)

Row(id, wrong, right) == [id |-> id, wrong |-> wrong, right |-> right]

\* a faulty variant of the ORDER BY: most recently created first only
RulesBefore_by_id(r, q) == r.id > q.id

\* a faulty variant of the ORDER BY: ties go to the oldest rule
RulesBefore_oldest_first(r, q) ==
    \/ Len(r.wrong) > Len(q.wrong)
    \/ Len(r.wrong) = Len(q.wrong) /\ r.id < q.id

\* ORDER BY LENGTH(wrong) DESC, id DESC: row r comes before row q
RulesBefore(r, q) ==
    \/ Len(r.wrong) > Len(q.wrong)
    \/ Len(r.wrong) = Len(q.wrong) /\ r.id > q.id

RECURSIVE SortRows(_)
SortRows(rows) ==
    IF rows = {}
    THEN <<>>
    ELSE LET first == CHOOSE r \in rows :
                          \A q \in rows \ {r} : RulesBefore(r, q)
         IN  <<first>> \o SortRows(rows \ {first})

\* get_rules(): the rows of the table, ordered (db_init has created the
\* table when the module was loaded, so the "no such table" path is not
\* taken)
get_rules == SortRows(store)

\* add_rule(wrong, right): INSERT of the trimmed values under a fresh id
add_rule(wrong, right) ==
    /\ store' = store \cup {Row(nextId, strip(wrong), strip(right))}
    /\ nextId' = nextId + 1

\* delete_rule(rule_id): DELETE ... WHERE id = rule_id
delete_rule(rule_id) ==
    /\ store' = {r \in store : r.id # rule_id}
    /\ UNCHANGED nextId

\* clear_rules(): DELETE FROM rules (the AUTOINCREMENT counter is kept)
clear_rules ==
    /\ store' = {}
    /\ UNCHANGED nextId

---------------------------------------------------------------------------
(* correct_text, one loop iteration per step.                              *)

\* the callers of correct_text: home() on a POST, and api_correct()
Callers == {"home", "api"}

\* a call's local state.  where and passes are history: where[k] is the
\* rule index and the position of the match behind changes[k], passes[i]
\* the text rule i was matched against, snap the store's rows in
\* get_rules order when the call read them
IdleCall ==
    [pc |-> "idle", text |-> <<>>, rules |-> <<>>, i |-> 1,
     corrected |-> <<>>, changes |-> <<>>,
     where |-> <<>>, passes |-> <<>>, snap |-> <<>>]

\* a faulty variant: the text is trimmed before it is corrected
StartText_stripped(text) == strip(text)

\* `corrected = text`
StartText(text) == text

\* a faulty variant: every rule is matched against the original text
PassInput_original(c) == c.text

\* the text a loop iteration matches its rule against: `corrected`
PassInput(c) == c.corrected

\* a faulty variant: the rules are read from the store again
LoopRules_reread(c) == get_rules

\* the rule list the loop iterates over: the local `rules`
LoopRules(c) == c.rules

\* a faulty variant: a new record is put in front of the list
RecordChange_front(changes, rec) == <<rec>> \o changes

\* `changes.append(...)` in _repl
RecordChange(changes, rec) == Append(changes, rec)

RECURSIVE RecordAll(_, _)
RecordAll(changes, found) ==
    IF found = <<>>
    THEN changes
    ELSE RecordAll(RecordChange(changes, Head(found)), Tail(found))

\* `rules = get_rules(); corrected = text; changes = []`
CorrectRead(p, text) ==
    /\ calls[p].pc = "idle"
    /\ calls' = [calls EXCEPT ![p] =
                    [pc |-> "loop", text |-> text, rules |-> get_rules,
                     i |-> 1, corrected |-> StartText(text),
                     changes |-> <<>>, where |-> <<>>, passes |-> <<>>,
                     snap |-> get_rules]]
    /\ UNCHANGED <<store, nextId, imp>>

\* one iteration of `for r in rules`
CorrectStep(p) ==
    LET c == calls[p]
        rules == LoopRules(c)
    IN  /\ c.pc = "loop"
        /\ c.i <= Len(rules)
        /\ LET wrong == rules[c.i].wrong
               right == rules[c.i].right
               s     == PassInput(c)
               pass  == subn(s, wrong, right, 1)
           IN  IF wrong = <<>>
               THEN \* `if not wrong: continue`
                    calls' = [calls EXCEPT ![p].i = c.i + 1,
                                           ![p].passes = Append(c.passes, s)]
               ELSE calls' = [calls EXCEPT
                       ![p].i = c.i + 1,
                       ![p].corrected = pass.out,
                       ![p].changes = RecordAll(c.changes, pass.found),
                       ![p].where = c.where \o
                           [k \in 1..Len(pass.pos) |->
                               [rule |-> c.i, pos |-> pass.pos[k]]],
                       ![p].passes = Append(c.passes, s)]
        /\ UNCHANGED <<store, nextId, imp>>

\* `return corrected, changes`
CorrectReturn(p) ==
    /\ calls[p].pc = "loop"
    /\ calls[p].i > Len(LoopRules(calls[p]))
    /\ calls' = [calls EXCEPT ![p].pc = "done"]
    /\ UNCHANGED <<store, nextId, imp>>

\* home() renders the result, api_correct() serialises it: the request ends
Respond(p) ==
    /\ calls[p].pc = "done"
    /\ calls' = [calls EXCEPT ![p] = IdleCall]
    /\ UNCHANGED <<store, nextId, imp>>

---------------------------------------------------------------------------
(* The admin handlers.                                                     *)

\* an admin_import request: left is the number of items of its payload
\* the loop has not reached yet
IdleImport == [pc |-> "idle", left |-> 0]

\* admin_add: the form's values are trimmed; a rule is stored when both
\* are non-empty
admin_add(wrong, right) ==
    /\ nextId <= MaxId
    /\ IF strip(wrong) # <<>> /\ strip(right) # <<>>
       THEN add_rule(strip(wrong), strip(right))
       ELSE UNCHANGED <<store, nextId>>
    /\ UNCHANGED <<calls, imp>>

\* admin_delete
admin_delete(rule_id) ==
    /\ delete_rule(rule_id)
    /\ UNCHANGED <<calls, imp>>

\* admin_clear
admin_clear ==
    /\ clear_rules
    /\ UNCHANGED <<calls, imp>>

\* admin_import, up to the loop: the payload's "rules" list has n items
ImportStart(n, replace_all) ==
    /\ imp.pc = "idle"
    /\ imp' = [pc |-> IF replace_all THEN "clear" ELSE "add", left |-> n]
    /\ UNCHANGED <<store, nextId, calls>>

\* `if replace_all: clear_rules()`
ImportClear ==
    /\ imp.pc = "clear"
    /\ clear_rules
    /\ imp' = [imp EXCEPT !.pc = "add"]
    /\ UNCHANGED calls

\* one iteration of `for item in rules`, on the payload's next item: each
\* add_rule commits on its own
ImportAdd(item) ==
    /\ imp.pc = "add"
    /\ imp.left > 0
    /\ nextId <= MaxId
    /\ LET wrong == strip(item[1])
           right == strip(item[2])
       IN  IF wrong # <<>> /\ right # <<>>
           THEN add_rule(wrong, right)
           ELSE UNCHANGED <<store, nextId>>
    /\ imp' = [imp EXCEPT !.left = imp.left - 1]
    /\ UNCHANGED calls

\* the redirect that ends admin_import
ImportFinish ==
    /\ imp.pc = "add"
    /\ imp.left = 0
    /\ imp' = IdleImport
    /\ UNCHANGED <<store, nextId, calls>>

---------------------------------------------------------------------------
(* Inputs.                                                                 *)

SeqsUpTo(S, n) == UNION {[1..k -> S] : k \in 0..n}

nos_vai   == <<"n", "ó", "s", " ", "v", "a", "i">>
nos_vamos == <<"n", "ó", "s", " ", "v", "a", "m", "o", "s">>
vai       == <<"v", "a", "i">>
vou       == <<"v", "o", "u">>
vamos     == <<"v", "a", "m", "o", "s">>
foi       == <<"f", "o", "i">>
foram     == <<"f", "o", "r", "a", "m">>

\* what the form of /admin and an imported payload may hold: a rule with
\* blanks around it, a phrase rule, and a blank form (which is refused)
Forms ==
    {<<<<" ">> \o vai, vou \o <<" ">>>>,
     <<nos_vai, nos_vamos>>,
     <<<<" ", " ">>, vou>>}

\* the texts sent to the running store
StoreTexts == {nos_vai}

---------------------------------------------------------------------------
(* The store with its handlers and two concurrent callers.                 *)

Init ==
    /\ store = {}
    /\ nextId = 1
    /\ calls = [p \in Callers |-> IdleCall]
    /\ imp = IdleImport

Next ==
    \/ \E f \in Forms : admin_add(f[1], f[2])
    \/ \E id \in 1..(nextId - 1) : admin_delete(id)
    \/ admin_clear
    \/ \E n \in 0..MaxImport, replace_all \in BOOLEAN :
           ImportStart(n, replace_all)
    \/ ImportClear
    \/ \E f \in Forms : ImportAdd(f)
    \/ ImportFinish
    \/ \E p \in Callers, text \in StoreTexts : CorrectRead(p, text)
    \/ \E p \in Callers : CorrectStep(p)
    \/ \E p \in Callers : CorrectReturn(p)
    \/ \E p \in Callers : Respond(p)

Spec == Init /\ [][Next]_vars

---------------------------------------------------------------------------
(* The engine on every small table and text.  A table is what a sequence   *)
(* of admin_add requests leaves: its rows are trimmed and non-empty.       *)

\* the table after its rows were inserted in the order of t
TableOf(t) == {Row(k, t[k][1], t[k][2]) : k \in 1..Len(t)}

EngineAlphabet == {"a", "A", "-", " "}

EngineTexts == SeqsUpTo(EngineAlphabet, MaxTextLen)

\* rules over the small alphabet: a stored upper-case form whose right
\* form holds the next rule's wrong form, a form that starts with a
\* hyphen, and a phrase with a mixed-case right form
EnginePool ==
    {<<<<"A">>, <<"b", "-", "b">>>>,
     <<<<"b">>, <<"a", "-">>>>,
     <<<<"-", "a">>, <<"b">>>>,
     <<<<"a", " ", "a">>, <<"b", "A", "b">>>>}

InitEngine ==
    /\ \E t \in SeqsUpTo(EnginePool, MaxRows) :
           /\ store = TableOf(t)
           /\ nextId = Len(t) + 1
    /\ calls = [p \in Callers |-> IdleCall]
    /\ imp = IdleImport

NextEngine ==
    \/ \E text \in EngineTexts : CorrectRead("api", text)
    \/ CorrectStep("api")
    \/ CorrectReturn("api")
    \/ Respond("api")

SpecEngine == InitEngine /\ [][NextEngine]_vars

---------------------------------------------------------------------------
(* The engine on a table found in the database file.  db_init keeps the    *)
(* rows of an existing file (CREATE TABLE IF NOT EXISTS), and the schema   *)
(* takes any text as `wrong`: a table may hold rows the handlers would     *)
(* have refused, which is what `if not wrong: continue` is there for.      *)

\* an empty form, a blank form, and a rule the handlers accept
LegacyPool ==
    {<<<<>>, <<"b">>>>,
     <<<<" ">>, <<"b">>>>,
     <<<<"A">>, <<"b", "-", "b">>>>}

InitLegacy ==
    /\ \E t \in SeqsUpTo(LegacyPool, MaxRows) :
           /\ store = TableOf(t)
           /\ nextId = Len(t) + 1
    /\ calls = [p \in Callers |-> IdleCall]
    /\ imp = IdleImport

SpecLegacy == InitLegacy /\ [][NextEngine]_vars

---------------------------------------------------------------------------
(* The engine on tables of the rules and sentences the class would enter.  *)

ele_vai_embora ==
    <<"e", "l", "e", " ">> \o vai \o <<" ", "e", "m", "b", "o", "r", "a">>
levaivinda == <<"l", "e", "v", "a", "i", "v", "i", "n", "d", "a">>
nos_vai_e_eles_foi ==
    nos_vai \o <<" ", "e", " ", "e", "l", "e", "s", " ">> \o foi

ExamplePool ==
    {<<vai, vou>>, <<nos_vai, nos_vamos>>, <<vai, vamos>>, <<foi, foram>>}

ExampleTexts ==
    {nos_vai, nos_vai_e_eles_foi, ele_vai_embora, levaivinda,
     vai, <<"V", "A", "I">>, <<"V", "a", "i">>, <<"v", "A", "i">>}

InitExamples ==
    /\ \E t \in SeqsUpTo(ExamplePool, MaxRows) :
           /\ store = TableOf(t)
           /\ nextId = Len(t) + 1
    /\ calls = [p \in Callers |-> IdleCall]
    /\ imp = IdleImport

NextExamples ==
    \/ \E text \in ExampleTexts : CorrectRead("home", text)
    \/ CorrectStep("home")
    \/ CorrectReturn("home")
    \/ Respond("home")

SpecExamples == InitExamples /\ [][NextExamples]_vars

---------------------------------------------------------------------------
(* What the properties are stated with.                                    *)

\* the calls that have read their rules
Running == {p \in Callers : calls[p].pc # "idle"}

\* the calls that have returned
Returned == {p \in Callers : calls[p].pc = "done"}

\* the (wrong, right) pairs of a rule list
PairsOf(rules) == {<<rules[k].wrong, rules[k].right>> : k \in 1..Len(rules)}

\* w occurs in s, character for character
Occurs(w, s) ==
    \E q \in 1..(Len(s) + 1 - Len(w)) : SubSeq(s, q, q + Len(w) - 1) = w

\* the text behind change k of call c: what its rule's pattern matched in
\* the text the rule was matched against
MatchedText(c, k) ==
    LET w == c.where[k]
    IN  SubSeq(c.passes[w.rule], w.pos,
               w.pos + Len(c.rules[w.rule].wrong) - 1)

\* the text of call c once rule i has been applied
TextAfter(c, i) ==
    IF i < Len(c.passes) THEN c.passes[i + 1] ELSE c.corrected

\* the rules of a list applied one after the other, each to the result of
\* the one before: the text and the changes after the first n rules
RECURSIVE SequentialCorrection(_, _, _)
SequentialCorrection(rules, text, n) ==
    IF n = 0
    THEN [corrected |-> text, changes |-> <<>>]
    ELSE LET prev == SequentialCorrection(rules, text, n - 1)
             r    == rules[n]
             pass == subn(prev.corrected, r.wrong, r.right, 1)
         IN  IF r.wrong = <<>>
             THEN prev
             ELSE [corrected |-> pass.out,
                   changes |-> prev.changes \o pass.found]

\* no rule of the list matches anywhere in the text
NoRuleMatches(rules, text) ==
    \A k \in 1..Len(rules) : \A q \in 1..Len(text) :
        rules[k].wrong = <<>> \/ ~MatchAt(text, rules[k].wrong, q)

---------------------------------------------------------------------------
(* C1: whatever creations, deletions and clears came before, the rules a   *)
(* correction applies are in descending length of `wrong`, ties most       *)
(* recently created first; with vai->vou and nós vai->nós vamos stored,    *)
(* in either creation order, "nós vai" is corrected to "nós vamos".        *)
C1_LongestFirst ==
    \A p \in Running :
        LET c == calls[p]
        IN  /\ \A a, b \in 1..Len(c.rules) :
                   a < b =>
                       \/ Len(c.rules[a].wrong) > Len(c.rules[b].wrong)
                       \/ /\ Len(c.rules[a].wrong) = Len(c.rules[b].wrong)
                          /\ c.rules[a].id > c.rules[b].id
            /\ ( /\ c.pc = "done"
                 /\ c.text = nos_vai
                 /\ PairsOf(c.rules) = {<<vai, vou>>, <<nos_vai, nos_vamos>>} )
               => c.corrected = nos_vamos

\* the phrase rule was created first and is still applied first
C1_Witness ==
    \E p \in Returned :
        LET c == calls[p]
        IN  /\ c.text = nos_vai
            /\ Len(c.rules) = 2
            /\ c.rules[1].wrong = nos_vai
            /\ c.rules[1].id < c.rules[2].id
            /\ c.corrected = nos_vamos

(* C2: every match a rule whose stored form the handlers accept (trimmed,  *)
(* not empty) replaces has no word character right before it and none      *)
(* right after it in the text the rule was matched against.                *)
C2_NoWordCharBeside ==
    \A p \in Running :
        LET c == calls[p]
        IN  \A k \in 1..Len(c.where) :
                LET w     == c.where[k]
                    wrong == c.rules[w.rule].wrong
                IN  (wrong # <<>> /\ strip(wrong) = wrong) =>
                        /\ ~WordAt(c.passes[w.rule], w.pos - 1)
                        /\ ~WordAt(c.passes[w.rule], w.pos + Len(wrong))

(* C3: the replacement recorded for a match m of a rule with right form r  *)
(* is r in upper case when m is upper case; else r with its first          *)
(* character in upper case and the rest as stored when m starts with an    *)
(* upper-case character and the rest of m is lower case; else r as         *)
(* stored.  A one-character upper-case match gives r in upper case.        *)
C3_CasePreserved ==
    \A p \in Running :
        LET c == calls[p]
        IN  \A k \in 1..Len(c.changes) :
                LET m == MatchedText(c, k)
                    r == c.rules[c.where[k].rule].right
                    allUpper ==
                        /\ \E j \in 1..Len(m) : IsUpperChar(m[j])
                        /\ \A j \in 1..Len(m) : ~IsLowerChar(m[j])
                    capitalised ==
                        /\ IsUpperChar(m[1])
                        /\ \E j \in 2..Len(m) : IsLowerChar(m[j])
                        /\ \A j \in 2..Len(m) : ~IsUpperChar(m[j])
                IN  /\ allUpper => c.changes[k].para = upper(r)
                    /\ (~allUpper /\ capitalised) =>
                           c.changes[k].para = <<UpperOf(r[1])>> \o Tail(r)
                    /\ (~allUpper /\ ~capitalised) => c.changes[k].para = r
                    /\ (Len(m) = 1 /\ IsUpperChar(m[1])) =>
                           c.changes[k].para = upper(r)

\* a capitalised match whose replacement is neither r nor r in upper case
C3_Witness ==
    \E p \in Returned :
        LET c == calls[p]
        IN  \E k \in 1..Len(c.changes) :
                LET m == MatchedText(c, k)
                    r == c.rules[c.where[k].rule].right
                IN  /\ IsUpperChar(m[1])
                    /\ ~isupper(m)
                    /\ c.changes[k].para # r
                    /\ c.changes[k].para # upper(r)
                    /\ Occurs(c.changes[k].para, c.corrected)

(* C4: the change list holds one record per replaced match, in rule order  *)
(* and, within one rule, in left-to-right order of the matches.            *)
C4_ChangeOrder ==
    \A p \in Running :
        LET c == calls[p]
        IN  /\ Len(c.changes) = Len(c.where)
            /\ \A k \in 1..Len(c.changes) :
                   k <= Len(c.where) => c.changes[k].de = MatchedText(c, k)
            /\ \A a, b \in 1..Len(c.where) :
                   a < b =>
                       \/ c.where[a].rule < c.where[b].rule
                       \/ /\ c.where[a].rule = c.where[b].rule
                          /\ c.where[a].pos < c.where[b].pos

\* two matches of one rule with different texts, and a match of a later rule
C4_Witness ==
    \E p \in Returned :
        LET c == calls[p]
        IN  \E a, b, d \in 1..Len(c.changes) :
                /\ a < b /\ b < d
                /\ c.where[a].rule = c.where[b].rule
                /\ c.changes[a].de # c.changes[b].de
                /\ c.where[b].rule < c.where[d].rule

(* C5 as stated: with only vai->vamos and foi->foram stored, in either     *)
(* creation order, "nós vai e eles foi" yields the records vai->vamos,     *)
(* foi->foram in that order.                                               *)
C5_LeftToRight ==
    \A p \in Returned :
        LET c == calls[p]
        IN  ( /\ c.text = nos_vai_e_eles_foi
              /\ Len(c.rules) = 2
              /\ PairsOf(c.rules) = {<<vai, vamos>>, <<foi, foram>>} )
            => c.changes = << [de |-> vai, para |-> vamos],
                              [de |-> foi, para |-> foram] >>

(* C5 amended: the two records come in rule order, the rule created last   *)
(* first: vai->vamos, foi->foram when vai->vamos was created last, and     *)
(* foi->foram, vai->vamos when foi->foram was created last.                *)
C5_RuleOrder ==
    \A p \in Returned :
        LET c == calls[p]
            vaiId == c.rules[CHOOSE k \in 1..2 : c.rules[k].wrong = vai].id
            foiId == c.rules[CHOOSE k \in 1..2 : c.rules[k].wrong = foi].id
        IN  ( /\ c.text = nos_vai_e_eles_foi
              /\ Len(c.rules) = 2
              /\ PairsOf(c.rules) = {<<vai, vamos>>, <<foi, foram>>} )
            => /\ c.corrected =
                      <<"n", "ó", "s", " ">> \o vamos
                          \o <<" ", "e", " ", "e", "l", "e", "s", " ">> \o foram
               /\ vaiId > foiId =>
                      c.changes = << [de |-> vai, para |-> vamos],
                                     [de |-> foi, para |-> foram] >>
               /\ foiId > vaiId =>
                      c.changes = << [de |-> foi, para |-> foram],
                                     [de |-> vai, para |-> vamos] >>

\* foi->foram was created last and its record comes first
C5_Witness ==
    \E p \in Returned :
        LET c == calls[p]
        IN  /\ c.text = nos_vai_e_eles_foi
            /\ Len(c.rules) = 2
            /\ PairsOf(c.rules) = {<<vai, vamos>>, <<foi, foram>>}
            /\ c.changes[1].de = foi
            /\ c.rules[1].id = 2

(* C6 as stated: the `de` of every change record occurs in the input text, *)
(* character for character.                                                *)
C6_OriginalInInput ==
    \A p \in Running :
        LET c == calls[p]
        IN  \A k \in 1..Len(c.changes) : Occurs(c.changes[k].de, c.text)

(* C6 amended: the `de` of a change record is, character for character,    *)
(* the text its rule matched in the text as the earlier rules left it; it  *)
(* occurs in the input when no earlier rule changed anything; `para` is    *)
(* the case-adjusted right form, and it stands in the text after the rule. *)
C6_OriginalInCurrentText ==
    \A p \in Running :
        LET c == calls[p]
        IN  \A k \in 1..Len(c.changes) :
                k <= Len(c.where) =>
                LET w == c.where[k]
                IN  /\ c.changes[k].de = MatchedText(c, k)
                    /\ (\A j \in 1..Len(c.where) : c.where[j].rule >= w.rule)
                           => Occurs(c.changes[k].de, c.text)
                    /\ c.changes[k].para =
                           apply_case_like(MatchedText(c, k),
                                           c.rules[w.rule].right)
                    /\ Occurs(c.changes[k].para, TextAfter(c, w.rule))

\* a record whose `de` an earlier rule wrote: it is not in the input
C6_Witness ==
    \E p \in Returned :
        LET c == calls[p]
        IN  \E k \in 1..Len(c.changes) :
                /\ ~Occurs(c.changes[k].de, c.text)
                /\ c.changes[k].de = MatchedText(c, k)

(* C7: rule i is matched against the input as rules 1..i-1 left it, and    *)
(* the returned text is the rules applied one after the other.             *)
C7_Sequential ==
    \A p \in Running :
        LET c == calls[p]
        IN  /\ \A i \in 1..Len(c.passes) :
                   c.passes[i] =
                       SequentialCorrection(c.rules, c.text, i - 1).corrected
            /\ c.pc = "done" =>
                   /\ Len(c.passes) = Len(c.rules)
                   /\ c.corrected =
                          SequentialCorrection(c.rules, c.text,
                                               Len(c.rules)).corrected

\* a rule that matched in a text an earlier rule had changed
C7_Witness ==
    \E p \in Returned :
        LET c == calls[p]
        IN  \E k \in 1..Len(c.where) :
                /\ c.passes[c.where[k].rule] # c.text
                /\ ~Occurs(c.changes[k].de, c.text)

(* C8: a rule whose `wrong` is empty once trimmed is skipped: it adds no   *)
(* change record and leaves the text as it was.                            *)
C8_BlankRuleSkipped ==
    \A p \in Running :
        LET c == calls[p]
        IN  \A i \in 1..Len(c.passes) :
                strip(c.rules[i].wrong) = <<>> =>
                    /\ \A k \in 1..Len(c.where) : c.where[k].rule # i
                    /\ TextAfter(c, i) = c.passes[i]

(* C9: when no rule matches, the input comes back unchanged with no change *)
(* record; so it does for an empty rule list and for an empty text.        *)
C9_NoMatchNoChange ==
    \A p \in Returned :
        LET c == calls[p]
        IN  ( \/ NoRuleMatches(c.rules, c.text)
              \/ c.rules = <<>>
              \/ c.text = <<>> )
            => c.corrected = c.text /\ c.changes = <<>>

\* rules and a text with blanks around it, none of the rules matching
C9_Witness ==
    \E p \in Returned :
        LET c == calls[p]
        IN  /\ Len(c.rules) = 2
            /\ Len(c.text) = 3
            /\ c.text[1] = " "
            /\ NoRuleMatches(c.rules, c.text)
            /\ c.corrected = c.text

(* C10: whatever the other requests do in between, a call returns what the *)
(* rules it read at its start give when applied one after the other, and   *)
(* no step of a call changes the store.                                    *)
C10_Snapshot ==
    /\ [](\A p \in Returned :
            LET c == calls[p]
                r == SequentialCorrection(c.snap, c.text, Len(c.snap))
            IN  c.corrected = r.corrected /\ c.changes = r.changes)
    /\ [][calls' # calls => (store' = store /\ nextId' = nextId)]_vars

\* a call that returned from rules the store no longer holds
C10_Witness ==
    \E p \in Returned :
        LET c == calls[p]
        IN  /\ c.snap # get_rules
            /\ c.changes # <<>>
            /\ \E q \in Callers \ {p} : calls[q].pc = "loop"

=============================================================================
